---- MODULE Spec2Model ----
(***************************************************************************)
(* CareFlow (careflow_home.py): the schema migrator, the clinic-location   *)
(* store, the new-patient picker and the patient and staff registrars, as  *)
(* a state machine over the sqlite tables ClinicLocation, Patient and      *)
(* Staff and the widgets of NewPatientPage and NewStaffPage.               *)
(*                                                                         *)
(* Text is a sequence of one-character strings, so that strip, upper,      *)
(* len and the regular expressions of the validators are computed, not     *)
(* assumed.  None (Python) is the model value NoneVal.                     *)
(***************************************************************************)
EXTENDS Integers, Sequences, FiniteSets, TLC

\* ------------------------------------------------------------------------
\* Bounds of the model (not program constants)
\* ------------------------------------------------------------------------
\* rows the ClinicLocation table may hold
MaxLocations == 2
\* rows the Patient table may hold
MaxPatients == 1
\* rows the Staff table may hold
MaxStaff == 1
\* distinct values os.urandom(16) may return
NumSalts == 2

\* ------------------------------------------------------------------------
\* Python values and string methods
\* ------------------------------------------------------------------------
NoneVal == <<"None#">>

lowers == <<"a","b","c","d","e","f","g","h","i","j","k","l","m",
            "n","o","p","q","r","s","t","u","v","w","x","y","z">>
uppers == <<"A","B","C","D","E","F","G","H","I","J","K","L","M",
            "N","O","P","Q","R","S","T","U","V","W","X","Y","Z">>
digits == <<"0","1","2","3","4","5","6","7","8","9">>

Range(f) == {f[i] : i \in DOMAIN f}

IsSpace(c) == c \in {" ", "\t", "\n"}
IsDigit(c) == c \in Range(digits)
DigitVal(c) == (CHOOSE i \in DOMAIN digits : digits[i] = c) - 1

\* str(n) of a natural number
RECURSIVE str(_)
str(n) == IF n < 10 THEN <<digits[n + 1]>> ELSE str(n \div 10) \o <<digits[(n % 10) + 1]>>

\* str.upper / str.lower, one character
UpperChar(c) ==
    IF c \in Range(lowers) THEN uppers[CHOOSE i \in DOMAIN lowers : lowers[i] = c] ELSE c
LowerChar(c) ==
    IF c \in Range(uppers) THEN lowers[CHOOSE i \in DOMAIN uppers : uppers[i] = c] ELSE c
upper(s) == [i \in DOMAIN s |-> UpperChar(s[i])]
lower(s) == [i \in DOMAIN s |-> LowerChar(s[i])]

\* str.strip(): drops the leading and the trailing whitespace
RECURSIVE lstrip(_)
lstrip(s) == IF s # <<>> /\ IsSpace(Head(s)) THEN lstrip(Tail(s)) ELSE s
RECURSIVE rstrip(_)
rstrip(s) ==
    IF s # <<>> /\ IsSpace(s[Len(s)]) THEN rstrip(SubSeq(s, 1, Len(s) - 1)) ELSE s
strip(s) == rstrip(lstrip(s))

\* ------------------------------------------------------------------------
\* Validation helpers (careflow_home.py 68-91)
\* ------------------------------------------------------------------------
IsLeap(y) == (y % 4 = 0 /\ y % 100 # 0) \/ y % 400 = 0
DaysInMonth(y, m) ==
    IF m = 2 THEN (IF IsLeap(y) THEN 29 ELSE 28)
    ELSE IF m \in {4, 6, 9, 11} THEN 30 ELSE 31

\* the texts the directive %m matches: 1[0-2]|0[1-9]|[1-9]
MatchMonth(t) ==
    \/ Len(t) = 2 /\ t[1] = "1" /\ t[2] \in {"0", "1", "2"}
    \/ Len(t) = 2 /\ t[1] = "0" /\ IsDigit(t[2]) /\ t[2] # "0"
    \/ Len(t) = 1 /\ IsDigit(t[1]) /\ t[1] # "0"
\* the texts the directive %d matches: 3[0-1]|[1-2]\d|0[1-9]|[1-9]| [1-9]
MatchDay(t) ==
    \/ Len(t) = 2 /\ t[1] = "3" /\ t[2] \in {"0", "1"}
    \/ Len(t) = 2 /\ t[1] \in {"1", "2"} /\ IsDigit(t[2])
    \/ Len(t) = 2 /\ t[1] = "0" /\ IsDigit(t[2]) /\ t[2] # "0"
    \/ Len(t) = 1 /\ IsDigit(t[1]) /\ t[1] # "0"
    \/ Len(t) = 2 /\ t[1] = " " /\ IsDigit(t[2]) /\ t[2] # "0"
RECURSIVE NumVal(_)
NumVal(t) ==
    IF t = <<>> THEN 0
    ELSE IF IsDigit(t[Len(t)])
         THEN 10 * NumVal(SubSeq(t, 1, Len(t) - 1)) + DigitVal(t[Len(t)])
         ELSE NumVal(SubSeq(t, 1, Len(t) - 1))

\* datetime.strptime(s, "%Y-%m-%d") does not raise ValueError: the whole of
\* s matches \d\d\d\d-%m-%d and the fields are a date of the calendar
\* (datetime.MINYEAR is 1).
is_valid_date_yyyy_mm_dd(s) ==
    /\ Len(s) >= 8
    /\ \A i \in 1..4 : IsDigit(s[i])
    /\ s[5] = "-"
    /\ \E j \in 7..(Len(s) - 1) :
          /\ s[j] = "-"
          /\ MatchMonth(SubSeq(s, 6, j - 1))
          /\ MatchDay(SubSeq(s, j + 1, Len(s)))
          /\ NumVal(SubSeq(s, 1, 4)) >= 1
          /\ NumVal(SubSeq(s, j + 1, Len(s)))
                <= DaysInMonth(NumVal(SubSeq(s, 1, 4)), NumVal(SubSeq(s, 6, j - 1)))

normalize_sex(s) ==
    LET t == upper(strip(s)) IN
    IF t \in {<<"M">>, <<"M","A","L","E">>} THEN <<"M">>
    ELSE IF t \in {<<"F">>, <<"F","E","M","A","L","E">>} THEN <<"F">>
    ELSE <<>>

\* re.fullmatch(r"\d{3}-\d{4}", s.strip())
is_valid_phone_555_format(s) ==
    LET t == strip(s) IN
    /\ Len(t) = 8
    /\ \A i \in {1, 2, 3, 5, 6, 7, 8} : IsDigit(t[i])
    /\ t[4] = "-"

\* re.fullmatch(r"[^@\s]+@[^@\s]+\.[^@\s]+", s.strip())
NoAtNoSpace(t) == t # <<>> /\ \A i \in DOMAIN t : t[i] # "@" /\ ~IsSpace(t[i])
is_valid_email_basic(s) ==
    LET t == strip(s) IN
    \E i \in DOMAIN t : \E j \in DOMAIN t :
        /\ i < j
        /\ t[i] = "@"
        /\ t[j] = "."
        /\ NoAtNoSpace(SubSeq(t, 1, i - 1))
        /\ NoAtNoSpace(SubSeq(t, i + 1, j - 1))
        /\ NoAtNoSpace(SubSeq(t, j + 1, Len(t)))

\* ------------------------------------------------------------------------
\* DB migration (careflow_home.py 26-53)
\* The schema of a table is the sequence of its column names, as PRAGMA
\* table_info lists them; <<>> is a table that does not exist.  err is
\* whether sqlite3 raises sqlite3.Error in the call; ALTER TABLE on a table
\* that does not exist raises it in any case.
\* ------------------------------------------------------------------------
\* ensure_patient_password_column without the test of the column list
ensure_patient_password_column_always(cols, err) ==
    IF err \/ cols = <<>> THEN [cols |-> cols, error |-> TRUE]
    ELSE [cols |-> Append(cols, "password_hash"), error |-> FALSE]

ensure_patient_password_column(cols, err) ==
    IF err THEN [cols |-> cols, error |-> TRUE]
    ELSE IF "password_hash" \notin Range(cols)
         THEN IF cols = <<>> THEN [cols |-> cols, error |-> TRUE]
              ELSE [cols |-> Append(cols, "password_hash"), error |-> FALSE]
    ELSE [cols |-> cols, error |-> FALSE]

ensure_staff_password_column(cols, err) ==
    IF err THEN [cols |-> cols, error |-> TRUE]
    ELSE IF "password_hash" \notin Range(cols)
         THEN IF cols = <<>> THEN [cols |-> cols, error |-> TRUE]
              ELSE [cols |-> Append(cols, "password_hash"), error |-> FALSE]
    ELSE [cols |-> cols, error |-> FALSE]

\* ------------------------------------------------------------------------
\* Password hashing (careflow_home.py 57-64)
\* ------------------------------------------------------------------------
Iterations == 200000
\* salt.hex() of the values os.urandom(16) may return
SaltHex(n) == <<"0", digits[n + 1]>>
Salts == {SaltHex(n) : n \in 1..NumSalts}
\* bytes.hex() writes a text in which no "$" occurs: here the text itself,
\* with "$" and the escape character written as escapes
RECURSIVE hex(_)
hex(s) ==
    IF s = <<>> THEN <<>>
    ELSE (CASE Head(s) = "$" -> <<"%","2","4">>
            [] Head(s) = "%" -> <<"%","2","5">>
            [] OTHER -> <<Head(s)>>) \o hex(Tail(s))
\* hashlib.pbkdf2_hmac("sha256", password, salt, iterations).hex(): the
\* derived key is a free term over the password, the salt and the
\* iteration count
pbkdf2_hmac(password, salt, iterations) ==
    <<"<">> \o hex(password) \o <<"|">> \o salt \o <<"|">> \o str(iterations)
      \o <<">">>
\* hash_password with one salt for every call
hash_password_fixed_salt(password, salt) ==
    <<"p","b","k","d","f","2","_","s","h","a","2","5","6">> \o <<"$">>
      \o str(Iterations) \o <<"$">> \o SaltHex(0) \o <<"$">>
      \o pbkdf2_hmac(password, SaltHex(0), Iterations)
\* f"pbkdf2_sha256${iterations}${salt.hex()}${dk.hex()}"
hash_password(password, salt) ==
    <<"p","b","k","d","f","2","_","s","h","a","2","5","6">> \o <<"$">>
      \o str(Iterations) \o <<"$">> \o salt \o <<"$">>
      \o pbkdf2_hmac(password, salt, Iterations)
\* str.split(sep)
RECURSIVE split(_, _)
split(s, sep) ==
    IF sep \notin Range(s) THEN <<s>>
    ELSE LET k == CHOOSE i \in DOMAIN s :
                     s[i] = sep /\ \A j \in 1..(i - 1) : s[j] # sep
         IN <<SubSeq(s, 1, k - 1)>> \o split(SubSeq(s, k + 1, Len(s)), sep)

\* ------------------------------------------------------------------------
\* Clinic Location DB helpers (careflow_home.py 94-223)
\* A table is the sequence of its rows in rowid order; location_id is the
\* integer primary key sqlite assigns (largest rowid + 1).
\* Each helper takes the table and err, whether sqlite3 raises sqlite3.Error
\* in this call, and returns the table after the call and the value returned.
\* ------------------------------------------------------------------------
RECURSIVE MaxId(_)
MaxId(db) ==
    IF db = <<>> THEN 0
    ELSE LET m == MaxId(Tail(db)) IN
         IF Head(db).location_id > m THEN Head(db).location_id ELSE m
Ids(db) == {db[i].location_id : i \in DOMAIN db}
RowOf(db, id) == db[CHOOSE i \in DOMAIN db : db[i].location_id = id]

get_all_active_clinics(db, err) ==
    IF err THEN <<>>
    ELSE LET act == SelectSeq(db, LAMBDA r : r.status = "active") IN
         [i \in DOMAIN act |->
            <<act[i].location_id, act[i].name, act[i].city, act[i].state>>]

add_clinic_location(db, name, address, city, state, zip_code, phone, err) ==
    IF err THEN [db |-> db, result |-> FALSE]
    ELSE [db |-> Append(db, [location_id |-> MaxId(db) + 1, name |-> name,
                             address |-> address, city |-> city, state |-> state,
                             zip |-> zip_code, phone |-> phone, status |-> "active"]),
          result |-> TRUE]

\* remove_clinic_location as a DELETE FROM ClinicLocation WHERE location_id = ?
remove_clinic_location_hard(db, location_id, err) ==
    IF err THEN [db |-> db, result |-> FALSE]
    ELSE [db |-> SelectSeq(db, LAMBDA r : r.location_id # location_id),
          result |-> TRUE]

remove_clinic_location(db, location_id, err) ==
    IF err THEN [db |-> db, result |-> FALSE]
    ELSE [db |-> [i \in DOMAIN db |->
                    IF db[i].location_id = location_id
                    THEN [db[i] EXCEPT !.status = "inactive"] ELSE db[i]],
          result |-> TRUE]

\* the arguments of update_clinic_location, NoneVal for one not passed
ClinicFields == {"name", "address", "city", "state", "zip", "phone"}
Provided(patch) == {f \in ClinicFields : patch[f] # NoneVal}
\* update_clinic_location writing every column, the ones passed as None too
update_clinic_location_all(db, location_id, patch, err) ==
    IF err THEN [db |-> db, result |-> FALSE]
    ELSE IF Provided(patch) = {} THEN [db |-> db, result |-> FALSE]
    ELSE [db |-> [i \in DOMAIN db |->
                    IF db[i].location_id = location_id
                    THEN [f \in DOMAIN db[i] |->
                            IF f \in ClinicFields THEN patch[f] ELSE db[i][f]]
                    ELSE db[i]],
          result |-> TRUE]

\* update_clinic_location reporting success when there is nothing to update
update_clinic_location_noop_ok(db, location_id, patch, err) ==
    IF err THEN [db |-> db, result |-> FALSE]
    ELSE [db |-> [i \in DOMAIN db |->
                    IF db[i].location_id = location_id
                    THEN [f \in DOMAIN db[i] |->
                            IF f \in Provided(patch) THEN patch[f] ELSE db[i][f]]
                    ELSE db[i]],
          result |-> TRUE]

\* update_clinic_location returning cur.rowcount > 0
update_clinic_location_rowcount(db, location_id, patch, err) ==
    IF err THEN [db |-> db, result |-> FALSE]
    ELSE IF Provided(patch) = {} THEN [db |-> db, result |-> FALSE]
    ELSE [db |-> [i \in DOMAIN db |->
                    IF db[i].location_id = location_id
                    THEN [f \in DOMAIN db[i] |->
                            IF f \in Provided(patch) THEN patch[f] ELSE db[i][f]]
                    ELSE db[i]],
          result |-> location_id \in Ids(db)]

\* update_clinic_location with status = 'active' in its SET clause
update_clinic_location_reactivate(db, location_id, patch, err) ==
    IF err THEN [db |-> db, result |-> FALSE]
    ELSE IF Provided(patch) = {} THEN [db |-> db, result |-> FALSE]
    ELSE [db |-> [i \in DOMAIN db |->
                    IF db[i].location_id = location_id
                    THEN [f \in DOMAIN db[i] |->
                            IF f \in Provided(patch) THEN patch[f]
                            ELSE IF f = "status" THEN "active" ELSE db[i][f]]
                    ELSE db[i]],
          result |-> TRUE]

update_clinic_location(db, location_id, patch, err) ==
    IF err THEN [db |-> db, result |-> FALSE]
    ELSE IF Provided(patch) = {} THEN [db |-> db, result |-> FALSE]
    ELSE [db |-> [i \in DOMAIN db |->
                    IF db[i].location_id = location_id
                    THEN [f \in DOMAIN db[i] |->
                            IF f \in Provided(patch) THEN patch[f] ELSE db[i][f]]
                    ELSE db[i]],
          result |-> TRUE]

\* soft_delete_clinic_location flipping the status instead of setting it
soft_delete_clinic_location_toggle(db, clinic_id, err) ==
    IF err THEN [db |-> db, result |-> FALSE]
    ELSE [db |-> [i \in DOMAIN db |->
                    IF db[i].location_id = clinic_id
                    THEN [db[i] EXCEPT !.status =
                            IF @ = "active" THEN "inactive" ELSE "active"]
                    ELSE db[i]],
          result |-> TRUE]

soft_delete_clinic_location(db, clinic_id, err) ==
    IF err THEN [db |-> db, result |-> FALSE]
    ELSE [db |-> [i \in DOMAIN db |->
                    IF db[i].location_id = clinic_id
                    THEN [db[i] EXCEPT !.status = "inactive"] ELSE db[i]],
          result |-> TRUE]

\* ------------------------------------------------------------------------
\* NewPatientPage (careflow_home.py 484-671)
\* ------------------------------------------------------------------------
\* code points in ascending order, for ORDER BY name (BINARY collation)
collation == <<" ">> \o digits \o uppers \o lowers
Ord(c) == CHOOSE i \in DOMAIN collation : collation[i] = c
RECURSIVE StrLeq(_, _)
StrLeq(a, b) ==
    IF a = <<>> THEN TRUE
    ELSE IF b = <<>> THEN FALSE
    ELSE IF Head(a) = Head(b) THEN StrLeq(Tail(a), Tail(b))
    ELSE Ord(Head(a)) < Ord(Head(b))
\* NULL sorts before every text
NameLeq(a, b) == a = NoneVal \/ (b # NoneVal /\ StrLeq(a, b))

\* The orders "SELECT location_id, name FROM ClinicLocation ORDER BY name"
\* may return the rows in: sorted by name, rows of equal name in any order.
OrderedBy(db) ==
    {p \in [DOMAIN db -> DOMAIN db] :
        /\ \A i, j \in DOMAIN db : i # j => p[i] # p[j]
        /\ \A i, j \in DOMAIN db : i < j => NameLeq(db[p[i]].name, db[p[j]].name)}

\* str(name) if name is not None else f"Location {loc_id}"
LabelOf(row) ==
    IF row.name # NoneVal THEN row.name
    ELSE <<"L","o","c","a","t","i","o","n"," ">> \o str(row.location_id)

NoLocationsFound == <<"No locations found">>

\* _load_locations on a fresh page (location_map = {}, no combobox values,
\* location_var = ""): order is the order the SELECT returned, err whether
\* sqlite3.Error was raised.
load_locations(db, order, err) ==
    IF err THEN [location_map |-> <<>>, combo_values |-> <<>>, location_var |-> <<>>]
    ELSE LET display_names == [k \in DOMAIN db |-> LabelOf(db[order[k]])]
             labels == Range(display_names)
             \* self.location_map[label] = loc_id: the last assignment stays
             last(l) == CHOOSE k \in DOMAIN display_names :
                           /\ display_names[k] = l
                           /\ \A m \in DOMAIN display_names :
                                 display_names[m] = l => m <= k
         IN [location_map |-> [l \in labels |-> db[order[last(l)]].location_id],
             combo_values |-> display_names,
             location_var |-> IF display_names # <<>> THEN display_names[1]
                              ELSE NoLocationsFound]

EntryKeys == {"first_name", "last_name", "dob", "sex", "phone", "email", "address",
              "allergies", "conditions", "medications", "notes",
              "emergency_contact", "password", "confirm_password"}
required_keys == {"first_name", "last_name", "dob", "sex", "phone", "email",
                  "address", "allergies", "conditions", "medications",
                  "emergency_contact", "password", "confirm_password"}
EmptyEntries == [k \in EntryKeys |-> <<>>]

NoneText == <<"N","o","n","e">>
\* if data[key].lower() == "none": data[key] = "None"
Canon(v) == IF lower(v) = lower(NoneText) THEN NoneText ELSE v

\* PatientRow without data["sex"] = sex_norm (line 611)
PatientRow_raw_sex(data, location_id, pw_hash, patient_id) ==
    [patient_id |-> patient_id,
     first_name |-> data["first_name"], last_name |-> data["last_name"],
     dob |-> data["dob"], sex |-> data["sex"],
     phone |-> data["phone"], email |-> data["email"],
     address |-> data["address"], location_id |-> location_id,
     allergies |-> Canon(data["allergies"]),
     conditions |-> Canon(data["conditions"]),
     medications |-> Canon(data["medications"]),
     notes |-> data["notes"],
     emergency_contact |-> data["emergency_contact"],
     password_hash |-> pw_hash]

\* The row save_patient inserts (lines 637-658)
PatientRow(data, location_id, pw_hash, patient_id) ==
    [patient_id |-> patient_id,
     first_name |-> data["first_name"], last_name |-> data["last_name"],
     dob |-> data["dob"], sex |-> normalize_sex(data["sex"]),
     phone |-> data["phone"], email |-> data["email"],
     address |-> data["address"], location_id |-> location_id,
     allergies |-> Canon(data["allergies"]),
     conditions |-> Canon(data["conditions"]),
     medications |-> Canon(data["medications"]),
     notes |-> data["notes"],
     emergency_contact |-> data["emergency_contact"],
     password_hash |-> pw_hash]

\* What a call changes: the Patient table, the entries, the combobox
\* selection, the raised frame, and the title of the message box shown.
Outcome(patients, ent, lvar, frm, title) ==
    [Patient |-> patients, entries |-> ent, location_var |-> lvar,
     frame |-> frm, result |-> title]

\* save_patient with the INSERT placed before the two password checks
save_patient_early_insert(ent, lvar, lmap, values, patients, frm, salt, err) ==
    LET data == [k \in EntryKeys |-> strip(ent[k])]
        missing == {k \in required_keys : data[k] = <<>>}
        selected_location == strip(lvar)
        Reject(title) == Outcome(patients, ent, lvar, frm, title)
        inserted == Append(patients,
                           PatientRow(data, lmap[selected_location],
                                      hash_password(data["password"], salt),
                                      Len(patients) + 1))
    IN
    IF missing # {} THEN Reject("Missing Fields")
    ELSE IF selected_location = <<>> \/ selected_location \notin DOMAIN lmap
         THEN Reject("Missing Clinic Location")
    ELSE IF ~is_valid_date_yyyy_mm_dd(data["dob"]) THEN Reject("Invalid DOB")
    ELSE IF normalize_sex(data["sex"]) \notin {<<"M">>, <<"F">>} THEN Reject("Invalid Sex")
    ELSE IF ~is_valid_phone_555_format(data["phone"]) THEN Reject("Invalid Phone")
    ELSE IF ~is_valid_email_basic(data["email"]) THEN Reject("Invalid Email")
    ELSE IF err THEN Reject("Database Error")
    ELSE IF Len(data["password"]) < 8
         THEN Outcome(inserted, ent, lvar, frm, "Weak Password")
    ELSE IF data["password"] # data["confirm_password"]
         THEN Outcome(inserted, ent, lvar, frm, "Password Mismatch")
    ELSE Outcome(inserted, EmptyEntries,
                 IF values # <<>> THEN values[1] ELSE lvar, "HomePage", "Success")

\* save_patient without the comparison of password and confirm_password
save_patient_no_confirm(ent, lvar, lmap, values, patients, frm, salt, err) ==
    LET data == [k \in EntryKeys |-> strip(ent[k])]
        missing == {k \in required_keys : data[k] = <<>>}
        selected_location == strip(lvar)
        Reject(title) == Outcome(patients, ent, lvar, frm, title)
    IN
    IF missing # {} THEN Reject("Missing Fields")
    ELSE IF selected_location = <<>> \/ selected_location \notin DOMAIN lmap
         THEN Reject("Missing Clinic Location")
    ELSE IF ~is_valid_date_yyyy_mm_dd(data["dob"]) THEN Reject("Invalid DOB")
    ELSE IF normalize_sex(data["sex"]) \notin {<<"M">>, <<"F">>} THEN Reject("Invalid Sex")
    ELSE IF ~is_valid_phone_555_format(data["phone"]) THEN Reject("Invalid Phone")
    ELSE IF ~is_valid_email_basic(data["email"]) THEN Reject("Invalid Email")
    ELSE IF Len(data["password"]) < 8 THEN Reject("Weak Password")
    ELSE IF err THEN Reject("Database Error")
    ELSE Outcome(Append(patients,
                        PatientRow(data, lmap[selected_location],
                                   hash_password(data["password"], salt),
                                   Len(patients) + 1)),
                 EmptyEntries,
                 IF values # <<>> THEN values[1] ELSE lvar,
                 "HomePage",
                 "Success")

\* save_patient with the password length check placed before the dob check
save_patient_password_first(ent, lvar, lmap, values, patients, frm, salt, err) ==
    LET data == [k \in EntryKeys |-> strip(ent[k])]
        missing == {k \in required_keys : data[k] = <<>>}
        selected_location == strip(lvar)
        Reject(title) == Outcome(patients, ent, lvar, frm, title)
    IN
    IF missing # {} THEN Reject("Missing Fields")
    ELSE IF selected_location = <<>> \/ selected_location \notin DOMAIN lmap
         THEN Reject("Missing Clinic Location")
    ELSE IF Len(data["password"]) < 8 THEN Reject("Weak Password")
    ELSE IF ~is_valid_date_yyyy_mm_dd(data["dob"]) THEN Reject("Invalid DOB")
    ELSE IF normalize_sex(data["sex"]) \notin {<<"M">>, <<"F">>} THEN Reject("Invalid Sex")
    ELSE IF ~is_valid_phone_555_format(data["phone"]) THEN Reject("Invalid Phone")
    ELSE IF ~is_valid_email_basic(data["email"]) THEN Reject("Invalid Email")
    ELSE IF data["password"] # data["confirm_password"] THEN Reject("Password Mismatch")
    ELSE IF err THEN Reject("Database Error")
    ELSE Outcome(Append(patients,
                        PatientRow(data, lmap[selected_location],
                                   hash_password(data["password"], salt),
                                   Len(patients) + 1)),
                 EmptyEntries,
                 IF values # <<>> THEN values[1] ELSE lvar,
                 "HomePage",
                 "Success")

\* save_patient that clears the form and leaves the page also when the
\* INSERT raised sqlite3.Error
save_patient_clear_on_error(ent, lvar, lmap, values, patients, frm, salt, err) ==
    LET data == [k \in EntryKeys |-> strip(ent[k])]
        missing == {k \in required_keys : data[k] = <<>>}
        selected_location == strip(lvar)
        Reject(title) == Outcome(patients, ent, lvar, frm, title)
    IN
    IF missing # {} THEN Reject("Missing Fields")
    ELSE IF selected_location = <<>> \/ selected_location \notin DOMAIN lmap
         THEN Reject("Missing Clinic Location")
    ELSE IF ~is_valid_date_yyyy_mm_dd(data["dob"]) THEN Reject("Invalid DOB")
    ELSE IF normalize_sex(data["sex"]) \notin {<<"M">>, <<"F">>} THEN Reject("Invalid Sex")
    ELSE IF ~is_valid_phone_555_format(data["phone"]) THEN Reject("Invalid Phone")
    ELSE IF ~is_valid_email_basic(data["email"]) THEN Reject("Invalid Email")
    ELSE IF Len(data["password"]) < 8 THEN Reject("Weak Password")
    ELSE IF data["password"] # data["confirm_password"] THEN Reject("Password Mismatch")
    ELSE IF err
         THEN Outcome(patients, EmptyEntries,
                      IF values # <<>> THEN values[1] ELSE lvar, "HomePage",
                      "Database Error")
    ELSE Outcome(Append(patients,
                        PatientRow(data, lmap[selected_location],
                                   hash_password(data["password"], salt),
                                   Len(patients) + 1)),
                 EmptyEntries,
                 IF values # <<>> THEN values[1] ELSE lvar,
                 "HomePage",
                 "Success")

\* save_patient with one Patient row for each email: a registration whose
\* email a row holds already succeeds and adds none
save_patient_unique_email(ent, lvar, lmap, values, patients, frm, salt, err) ==
    LET data == [k \in EntryKeys |-> strip(ent[k])]
        missing == {k \in required_keys : data[k] = <<>>}
        selected_location == strip(lvar)
        Reject(title) == Outcome(patients, ent, lvar, frm, title)
    IN
    IF missing # {} THEN Reject("Missing Fields")
    ELSE IF selected_location = <<>> \/ selected_location \notin DOMAIN lmap
         THEN Reject("Missing Clinic Location")
    ELSE IF ~is_valid_date_yyyy_mm_dd(data["dob"]) THEN Reject("Invalid DOB")
    ELSE IF normalize_sex(data["sex"]) \notin {<<"M">>, <<"F">>} THEN Reject("Invalid Sex")
    ELSE IF ~is_valid_phone_555_format(data["phone"]) THEN Reject("Invalid Phone")
    ELSE IF ~is_valid_email_basic(data["email"]) THEN Reject("Invalid Email")
    ELSE IF Len(data["password"]) < 8 THEN Reject("Weak Password")
    ELSE IF data["password"] # data["confirm_password"] THEN Reject("Password Mismatch")
    ELSE IF err THEN Reject("Database Error")
    ELSE IF \E i \in DOMAIN patients : patients[i].email = data["email"]
         THEN Outcome(patients, EmptyEntries,
                      IF values # <<>> THEN values[1] ELSE lvar, "HomePage",
                      "Success")
    ELSE Outcome(Append(patients,
                        PatientRow(data, lmap[selected_location],
                                   hash_password(data["password"], salt),
                                   Len(patients) + 1)),
                 EmptyEntries,
                 IF values # <<>> THEN values[1] ELSE lvar,
                 "HomePage",
                 "Success")

\* save_patient (lines 583-671).  salt is what os.urandom returns, err
\* whether the INSERT raises sqlite3.Error.
save_patient(ent, lvar, lmap, values, patients, frm, salt, err) ==
    LET data == [k \in EntryKeys |-> strip(ent[k])]
        missing == {k \in required_keys : data[k] = <<>>}
        selected_location == strip(lvar)
        Reject(title) == Outcome(patients, ent, lvar, frm, title)
    IN
    IF missing # {} THEN Reject("Missing Fields")
    ELSE IF selected_location = <<>> \/ selected_location \notin DOMAIN lmap
         THEN Reject("Missing Clinic Location")
    ELSE IF ~is_valid_date_yyyy_mm_dd(data["dob"]) THEN Reject("Invalid DOB")
    ELSE IF normalize_sex(data["sex"]) \notin {<<"M">>, <<"F">>} THEN Reject("Invalid Sex")
    ELSE IF ~is_valid_phone_555_format(data["phone"]) THEN Reject("Invalid Phone")
    ELSE IF ~is_valid_email_basic(data["email"]) THEN Reject("Invalid Email")
    ELSE IF Len(data["password"]) < 8 THEN Reject("Weak Password")
    ELSE IF data["password"] # data["confirm_password"] THEN Reject("Password Mismatch")
    ELSE IF err THEN Reject("Database Error")
    ELSE Outcome(Append(patients,
                        PatientRow(data, lmap[selected_location],
                                   hash_password(data["password"], salt),
                                   Len(patients) + 1)),
                 EmptyEntries,
                 IF values # <<>> THEN values[1] ELSE lvar,
                 "HomePage",
                 "Success")

\* ------------------------------------------------------------------------
\* NewStaffPage (careflow_home.py 882-1022)
\* ------------------------------------------------------------------------
StaffEntryKeys == {"first_name", "last_name", "email", "phone", "password",
                   "confirm_password", "confirmation_code"}
staff_required_keys == {"first_name", "last_name", "email", "phone", "password",
                        "confirm_password"}
EmptyStaffEntries == [k \in StaffEntryKeys |-> <<>>]
\* the values of role_combo
RoleValues ==
    << <<"d","o","c","t","o","r">>, <<"b","i","l","l","i","n","g">>,
       <<"r","e","c","o","r","d","s">>, <<"n","u","r","s","e">> >>
\* a combobox that is not read-only takes any text
RoleChoices_editable == Range(RoleValues) \cup {<<"a","d","m","i","n">>, <<>>}
\* what the user can put into role_var: role_combo is state="readonly"
RoleChoices == Range(RoleValues)
\* the code save_staff compares the confirmation code with
ConfirmationCode == <<"1","2","3","4">>

\* The row save_staff inserts (lines 997-1007)
StaffRow(data, role, pw_hash, staff_id) ==
    [staff_id |-> staff_id,
     first_name |-> data["first_name"], last_name |-> data["last_name"],
     email |-> data["email"], phone |-> data["phone"], role |-> role,
     active_flag |-> 1, password_hash |-> pw_hash]

\* What a call changes: the Staff table, the entries, the role selected,
\* the raised frame, and the title of the message box shown.
StaffOutcome(staff, ent, role, frm, title) ==
    [Staff |-> staff, entries |-> ent, role_var |-> role, frame |-> frm,
     result |-> title]

\* save_staff without the comparison of the confirmation code
save_staff_no_code(ent, rvar, staff, frm, salt, err) ==
    LET data == [k \in StaffEntryKeys |-> strip(ent[k])]
        role == strip(rvar)
        missing == {k \in staff_required_keys : data[k] = <<>>}
        Reject(title) == StaffOutcome(staff, ent, rvar, frm, title)
    IN
    IF missing # {} \/ role = <<>> THEN Reject("Missing Fields")
    ELSE IF ~is_valid_email_basic(data["email"]) THEN Reject("Invalid Email")
    ELSE IF ~is_valid_phone_555_format(data["phone"]) THEN Reject("Invalid Phone")
    ELSE IF Len(data["password"]) < 8 THEN Reject("Weak Password")
    ELSE IF data["password"] # data["confirm_password"] THEN Reject("Password Mismatch")
    ELSE IF err THEN Reject("Database Error")
    ELSE StaffOutcome(Append(staff,
                             StaffRow(data, role,
                                      hash_password(data["password"], salt),
                                      Len(staff) + 1)),
                      EmptyStaffEntries, RoleValues[1], "HomePage", "Success")

\* save_staff (lines 956-1022).  salt is what os.urandom returns, err
\* whether the INSERT raises sqlite3.Error.
save_staff(ent, rvar, staff, frm, salt, err) ==
    LET data == [k \in StaffEntryKeys |-> strip(ent[k])]
        role == strip(rvar)
        missing == {k \in staff_required_keys : data[k] = <<>>}
        Reject(title) == StaffOutcome(staff, ent, rvar, frm, title)
    IN
    IF missing # {} \/ role = <<>> THEN Reject("Missing Fields")
    ELSE IF ~is_valid_email_basic(data["email"]) THEN Reject("Invalid Email")
    ELSE IF ~is_valid_phone_555_format(data["phone"]) THEN Reject("Invalid Phone")
    ELSE IF Len(data["password"]) < 8 THEN Reject("Weak Password")
    ELSE IF data["password"] # data["confirm_password"] THEN Reject("Password Mismatch")
    ELSE IF data["confirmation_code"] # ConfirmationCode THEN Reject("Invalid Code")
    ELSE IF err THEN Reject("Database Error")
    ELSE StaffOutcome(Append(staff,
                             StaffRow(data, role,
                                      hash_password(data["password"], salt),
                                      Len(staff) + 1)),
                      EmptyStaffEntries, RoleValues[1], "HomePage", "Success")

\* The columns the statements of the program name, in the tables Patient
\* and Staff as they are before the migrations.
PatientColumns ==
    <<"patient_id", "first_name", "last_name", "dob", "sex", "phone", "email",
      "address", "location_id", "allergies", "conditions", "medications",
      "notes", "emergency_contact">>
StaffColumns ==
    <<"staff_id", "first_name", "last_name", "email", "phone", "role",
      "active_flag">>

\* ------------------------------------------------------------------------
\* Inputs of the model
\* ------------------------------------------------------------------------
\* the submission of the end-to-end example
BaseForm ==
    [first_name |-> <<"J","a","n","e">>,
     last_name |-> <<"D","o","e">>,
     dob |-> <<"1","9","9","0","-","0","5","-","1","0">>,
     sex |-> <<"F">>,
     phone |-> <<"5","5","5","-","1","1","1","1">>,
     email |-> <<"j","@","x",".","c","o">>,
     address |-> <<"1"," ","R","d">>,
     allergies |-> <<"N","o","n","e">>,
     conditions |-> <<"N","o","n","e">>,
     medications |-> <<"N","o","n","e">>,
     notes |-> <<>>,
     emergency_contact |-> <<"5","5","5","-","2","2","2","2">>,
     password |-> <<"p","a","s","s","w","o","r","d","1">>,
     confirm_password |-> <<"p","a","s","s","w","o","r","d","1">>]

With(k, v) == [BaseForm EXCEPT ![k] = v]
With2(k1, v1, k2, v2) == [BaseForm EXCEPT ![k1] = v1, ![k2] = v2]

\* BaseForm with one required entry left empty
MissingForms == {With(k, <<>>) : k \in required_keys}
\* entries the validators reject
InvalidForms ==
    {With("first_name", <<" ">>),
     With("dob", <<"1","9","9","0","-","1","3","-","1","0">>),
     With("dob", <<"0","5","-","1","0","-","1","9","9","0">>),
     With("dob", <<"1","9","9","0","-","0","2","-","3","0">>),
     With("sex", <<"X">>),
     With("phone", <<"5","5","5","1","1","1","1">>),
     With("phone", <<"5","5","5","-","1","1","1">>),
     With("email", <<"j","@","x">>),
     With("email", <<"j","x",".","c","o">>),
     With("email", <<"j"," ","d","@","x",".","c","o">>),
     With2("password", <<"p","a","s","s","w","o","r">>, "confirm_password", <<"p","a","s","s","w","o","r">>),
     With2("password", <<"1","2","3","4","5","6","7"," ">>, "confirm_password", <<"1","2","3","4","5","6","7"," ">>),
     With("password", <<"p","a","s","s","w","o","r">>),
     With("confirm_password", <<"p","a","s","s","w","o","r","d","2">>),
     With("confirm_password", <<"P","a","s","s","w","o","r","d","1">>),
     With2("dob", <<"1","9","9","0","-","1","3","-","1","0">>, "password", <<"p","a","s","s","w","o","r">>),
     With2("first_name", <<>>, "dob", <<"1","9","9","0","-","1","3","-","1","0">>),
     With2("dob", <<"1","9","9","0","-","1","3","-","1","0">>, "sex", <<"X">>),
     With2("sex", <<"X">>, "phone", <<"5","5","5","1","1","1","1">>),
     With2("phone", <<"5","5","5","1","1","1","1">>, "email", <<"j","@","x">>),
     With2("email", <<"j","@","x">>, "password", <<"p","a","s","s","w","o","r">>)}
\* entries save_patient accepts
ValidForms ==
    {BaseForm,
     [BaseForm EXCEPT !["dob"] = <<"1","9","9","0","-","5","-","1">>,
                      !["sex"] = <<" ","m","a","l","e">>,
                      !["notes"] = <<"n","/","a">>],
     With("sex", <<"f">>),
     With("allergies", <<"n","o","n","e">>),
     With("conditions", <<"N","O","N","E"," ">>),
     With("confirm_password", <<"p","a","s","s","w","o","r","d","1"," ">>),
     With("password", <<" ","p","a","s","s","w","o","r","d","1">>)}
Forms == MissingForms \cup InvalidForms \cup ValidForms
\* the entries the application-level specification types
AppForms == {BaseForm, With("password", <<"p","a","s","s","w","o","r">>)}

Names == {<<"A">>, <<"B">>}
\* the arguments of add_clinic_location: the name varies, phone is optional
AddArgs ==
    {[name |-> n, address |-> <<"a","1">>, city |-> <<"c","1">>, state |-> <<"s","1">>,
      zip |-> <<"z","1">>, phone |-> <<>>] : n \in Names}
NoPatch == [f \in ClinicFields |-> NoneVal]
FullPatch ==
    [name |-> <<"B">>, address |-> <<"a","2">>, city |-> <<"c","2">>,
     state |-> <<"s","2">>, zip |-> <<"z","2">>, phone |-> <<"5","5","5","-","0","0","0","0">>]
Only(fs) == [f \in ClinicFields |-> IF f \in fs THEN FullPatch[f] ELSE NoneVal]
\* the patches of the application-level specification: a new name
AppPatches == {[NoPatch EXCEPT !.name = n] : n \in Names}
\* the patches of the store specification
StorePatches == {NoPatch, Only({"name"}), Only({"city", "state"}), FullPatch}
\* the patches of the status specification: no field, one field, every field
StatusPatches == {NoPatch, Only({"name"}), FullPatch}
\* the ids the store operations are called with: in the store specification
\* one more than can exist
AppIds == 1..MaxLocations
CallIds == 1..(MaxLocations + 1)

\* a staff registration save_staff accepts
StaffBase ==
    [first_name |-> <<"A","l">>,
     last_name |-> <<"N","g">>,
     email |-> <<"a","@","c",".","i","o">>,
     phone |-> <<"5","5","5","-","3","3","3","3">>,
     password |-> <<"p","a","s","s","w","o","r","d","1">>,
     confirm_password |-> <<"p","a","s","s","w","o","r","d","1">>,
     confirmation_code |-> <<"1","2","3","4">>]
StaffWith(k, v) == [StaffBase EXCEPT ![k] = v]
StaffWith2(k1, v1, k2, v2) == [StaffBase EXCEPT ![k1] = v1, ![k2] = v2]
\* registrations whose confirmation code is not the expected one
WrongCodeForms ==
    {StaffWith("confirmation_code", <<>>),
     StaffWith("confirmation_code", <<"0","0","0","0">>),
     StaffWith("confirmation_code", <<"1","2","3","4","5">>),
     StaffWith("confirmation_code", <<"1","2"," ","3","4">>),
     StaffWith2("confirmation_code", <<"4","3","2","1">>,
                "password", <<"p","a","s","s","w","o","r">>)}
\* registrations save_staff rejects before it looks at the code
InvalidStaffForms ==
    {StaffWith("first_name", <<>>),
     StaffWith("email", <<"a","@","c">>),
     StaffWith("phone", <<"5","5","5","3","3","3","3">>),
     StaffWith("password", <<"p","a","s","s","w","o","r">>),
     StaffWith("confirm_password", <<"p","a","s","s","w","o","r","d","2">>)}
\* registrations save_staff accepts
ValidStaffForms ==
    {StaffBase,
     StaffWith("confirmation_code", <<" ","1","2","3","4"," ">>)}
StaffForms == WrongCodeForms \cup InvalidStaffForms \cup ValidStaffForms
\* the schemas a table Patient or Staff may have when the application
\* starts: no such table, the table before and after the migration, and a
\* table that was created with the column
PatientSchemas ==
    {<<>>, PatientColumns, Append(PatientColumns, "password_hash"),
     <<"patient_id", "password_hash", "email">>}
StaffSchemas ==
    {<<>>, StaffColumns, Append(StaffColumns, "password_hash"),
     <<"staff_id", "password_hash", "email">>}
\* the passwords hash_password is called with by itself
Passwords ==
    {<<"p","a","s","s","w","o","r","d","1">>,
     <<"p","a","s","s","w","o","r","d","2">>,
     <<"P","a","s","s","w","o","r","d","1">>,
     <<"p","a","$","$","w","o","r","d">>,
     <<"1","0","0","%"," ","s","a","f","e">>,
     <<"0","1","|","0","2","|","0","3">>,
     <<"p","a","s","s","w","o","r">>,
     <<>>}
\* the texts is_valid_date_yyyy_mm_dd is called with by itself: a year, a
\* month and a day of every shape joined by hyphens, and texts of other
\* shapes
DateYears == {<<"1","9","9","0">>, <<"2","0","0","0">>, <<"1","9","0","0">>,
              <<"0","0","0","0">>, <<"1","9","9">>, <<"9","0">>}
DateMonths == {<<"0","5">>, <<"5">>, <<"1","3">>, <<"0","0">>, <<"0","2">>,
               <<"2">>, <<"1","2">>, <<" ","5">>}
DateDays == {<<"1","0">>, <<"1">>, <<"0","1">>, <<"2","9">>, <<"3","0">>,
             <<"3","1">>, <<"0","0">>, <<"3","2">>, <<" ","1">>}
DateInputs ==
    {y \o <<"-">> \o m \o <<"-">> \o d :
        y \in DateYears, m \in DateMonths, d \in DateDays}
    \cup {<<>>,
          <<"0","5","-","1","0","-","1","9","9","0">>,
          <<"1","0","-","0","5","-","1","9","9","0">>,
          <<"1","9","9","0","/","0","5","/","1","0">>,
          <<"1","9","9","0","0","5","1","0">>,
          <<"1","9","9","0","-","0","5">>,
          <<"1","9","9","0","-","0","5","-","1","0"," ">>,
          <<" ","1","9","9","0","-","0","5","-","1","0">>,
          <<"1","9","9","0","-","0","5","-","1","0","T","0","0">>,
          <<"1","9","9","0","-","0","5","-","1","0","-">>,
          <<"t","o","d","a","y">>}
\* two registrations that differ in the email only
DupForms == {BaseForm, With("email", <<"k","@","x",".","c","o">>)}

\* ------------------------------------------------------------------------
\* State
\* ------------------------------------------------------------------------
VARIABLES
    ClinicLocation,  \* the table ClinicLocation of healthcare.db
    Patient,         \* the table Patient of healthcare.db
    location_map,    \* NewPatientPage.location_map: label -> location_id
    combo_values,    \* NewPatientPage.location_combo["values"]
    location_var,    \* NewPatientPage.location_var
    entries,         \* NewPatientPage.entries: the text of each Entry
    frame,           \* the frame CareFlowApp.show_frame raised last
    ret,             \* the call the last step made, if it made one
    Staff,           \* the table Staff of healthcare.db
    staff_entries,   \* NewStaffPage.entries: the text of each Entry
    role_var,        \* NewStaffPage.role_var
    patient_cols,    \* the columns of the table Patient
    staff_cols,      \* the columns of the table Staff
    hash_calls,      \* the calls of hash_password made by themselves
    date_text,       \* the argument of is_valid_date_yyyy_mm_dd called by itself
    started          \* the steps of StartOrder this process has completed

vars == <<ClinicLocation, Patient, location_map, combo_values, location_var,
          entries, frame, ret, Staff, staff_entries, role_var, patient_cols,
          staff_cols, hash_calls, date_text, started>>
db_vars == <<ClinicLocation, Patient>>
page_vars == <<location_map, combo_values, location_var, entries, frame>>
staff_page_vars == <<staff_entries, role_var>>
schema_vars == <<patient_cols, staff_cols>>
staff_schema_vars ==
    <<Staff, staff_page_vars, schema_vars, hash_calls, date_text, started>>

\* The steps of a run of the program, in the order the process takes them:
\* CareFlowApp.__init__ calls the two migrations and then builds the pages
\* and raises HomePage; app.mainloop() is entered when __init__ has
\* returned, and no button handler runs before it.
StartOrder_mainloop_first ==
    <<"frames", "mainloop", "ensure_patient_password_column",
      "ensure_staff_password_column">>
StartOrder ==
    <<"ensure_patient_password_column", "ensure_staff_password_column",
      "frames", "mainloop">>
\* the step of that name has completed in this process
Done(step) == \E k \in 1..started : StartOrder[k] = step
\* the pages exist and the event loop dispatches the handlers of the buttons
Running == Done("frames") /\ Done("mainloop")

\* A call: the operation, the id it was given (0: none), the fields passed
\* not None, whether sqlite3.Error was raised, the status the addressed row
\* had before the call, the value returned (TRUE when the operation returns
\* None), the title of the message box the call showed ("-": none), the
\* connections the call opened and had not closed when it returned, and
\* whether the error left the operation uncaught.
Call(op, id, fields, err, was, result, message, open, raised) ==
    [op |-> op, id |-> id, fields |-> fields, err |-> err, was |-> was,
     result |-> result, message |-> message, open |-> open, raised |-> raised]
\* the last step was no call of an operation
NoCall == Call("-", 0, {}, FALSE, "-", TRUE, "-", 0, FALSE)
\* the message box the except clause of an operation shows
Shown(err) == IF err THEN "Database Error" ELSE "-"
\* The connections a call may leave open.  Every operation calls
\* conn.close() inside its try block only, so an error raised after
\* sqlite3.connect returned skips it: the connection then stays open until
\* the runtime finalizes the unreferenced object (0: sqlite3.connect itself
\* raised, or the object was finalized when the function returned).
ConnsLeft(err, connected) == IF err /\ connected THEN {0, 1} ELSE {0}
Was(db, id) == IF id \in Ids(db) THEN RowOf(db, id).status ELSE "absent"

\* ------------------------------------------------------------------------
\* Actions
\* ------------------------------------------------------------------------
\* CareFlowApp.__init__ runs the two migrations, builds NewPatientPage,
\* which loads the picker once, and NewStaffPage, and raises HomePage.
Construct(db, order, err, left, perr, serr) ==
    LET l == load_locations(db, order, err) IN
    /\ patient_cols' = ensure_patient_password_column(patient_cols, perr).cols
    /\ staff_cols' = ensure_staff_password_column(staff_cols, serr).cols
    /\ location_map' = l.location_map
    /\ combo_values' = l.combo_values
    /\ location_var' = l.location_var
    /\ entries' = EmptyEntries
    /\ staff_entries' = EmptyStaffEntries
    /\ role_var' = RoleValues[1]
    /\ frame' = "HomePage"
    /\ ret' = Call("_load_locations", 0, {}, err, "-", ~err, Shown(err), left,
                   FALSE)

\* the pages as CareFlowApp.__init__ leaves them on a healthcare.db whose
\* tables the migrations have been applied to
InitPages ==
    /\ entries = EmptyEntries
    /\ staff_entries = EmptyStaffEntries
    /\ role_var = RoleValues[1]
    /\ frame = "HomePage"
    /\ ret = Call("_load_locations", 0, {}, FALSE, "-", TRUE, "-", 0, FALSE)
    /\ hash_calls = <<>>
    /\ date_text = <<>>
    /\ started = Len(StartOrder)
InitSchema ==
    /\ patient_cols = ensure_patient_password_column(PatientColumns, FALSE).cols
    /\ staff_cols = ensure_staff_password_column(StaffColumns, FALSE).cols

Init ==
    /\ ClinicLocation = <<>>
    /\ Patient = <<>>
    /\ Staff = <<>>
    /\ InitSchema
    /\ location_map = <<>>
    /\ combo_values = <<>>
    /\ location_var = NoLocationsFound
    /\ InitPages

\* The application is closed and started again on the same healthcare.db.
Restart ==
    /\ \E order \in OrderedBy(ClinicLocation) : \E err, perr, serr \in BOOLEAN :
       \E left \in ConnsLeft(err, TRUE) :
          Construct(ClinicLocation, order, err, left, perr, serr)
    /\ UNCHANGED <<db_vars, Staff, hash_calls, date_text, started>>

\* whether the migration found the column
ColumnWas(cols) ==
    IF "password_hash" \in Range(cols) THEN "present" ELSE "absent"

\* One run of each migration.
MigratePatient ==
    /\ \E err \in BOOLEAN :
          LET o == ensure_patient_password_column(patient_cols, err) IN
          /\ patient_cols' = o.cols
          /\ \E left \in ConnsLeft(o.error, TRUE) :
                ret' = Call("ensure_patient_password_column", 0, {}, o.error,
                            ColumnWas(patient_cols), ~o.error,
                            Shown(o.error), left, FALSE)
    /\ UNCHANGED <<db_vars, page_vars, Staff, staff_page_vars, staff_cols,
                   hash_calls, date_text, started>>

MigrateStaff ==
    /\ \E err \in BOOLEAN :
          LET o == ensure_staff_password_column(staff_cols, err) IN
          /\ staff_cols' = o.cols
          /\ \E left \in ConnsLeft(o.error, TRUE) :
                ret' = Call("ensure_staff_password_column", 0, {}, o.error,
                            ColumnWas(staff_cols), ~o.error, Shown(o.error),
                            left, FALSE)
    /\ UNCHANGED <<db_vars, page_vars, Staff, staff_page_vars, patient_cols,
                   hash_calls, date_text, started>>

\* The steps of a start of the program, each enabled when the steps
\* before it in StartOrder have completed.
NextStep(step) ==
    /\ started < Len(StartOrder)
    /\ StartOrder[started + 1] = step
    /\ started' = started + 1

\* CareFlowApp.__init__ calls ensure_patient_password_column(); the except
\* clause of the migration shows the error and returns.
StartMigratePatient ==
    /\ NextStep("ensure_patient_password_column")
    /\ \E err \in BOOLEAN :
          LET o == ensure_patient_password_column(patient_cols, err) IN
          /\ patient_cols' = o.cols
          /\ \E left \in ConnsLeft(o.error, TRUE) :
                ret' = Call("ensure_patient_password_column", 0, {}, o.error,
                            ColumnWas(patient_cols), ~o.error,
                            Shown(o.error), left, FALSE)
    /\ UNCHANGED <<db_vars, page_vars, Staff, staff_page_vars, staff_cols,
                   hash_calls, date_text>>

\* CareFlowApp.__init__ calls ensure_staff_password_column().
StartMigrateStaff ==
    /\ NextStep("ensure_staff_password_column")
    /\ \E err \in BOOLEAN :
          LET o == ensure_staff_password_column(staff_cols, err) IN
          /\ staff_cols' = o.cols
          /\ \E left \in ConnsLeft(o.error, TRUE) :
                ret' = Call("ensure_staff_password_column", 0, {}, o.error,
                            ColumnWas(staff_cols), ~o.error, Shown(o.error),
                            left, FALSE)
    /\ UNCHANGED <<db_vars, page_vars, Staff, staff_page_vars, patient_cols,
                   hash_calls, date_text>>

\* CareFlowApp.__init__ builds the pages, NewPatientPage loading its
\* picker, and raises HomePage.
StartFrames ==
    /\ NextStep("frames")
    /\ \E order \in OrderedBy(ClinicLocation) : \E err \in BOOLEAN :
          LET l == load_locations(ClinicLocation, order, err) IN
          /\ location_map' = l.location_map
          /\ combo_values' = l.combo_values
          /\ location_var' = l.location_var
          /\ \E left \in ConnsLeft(err, TRUE) :
                ret' = Call("_load_locations", 0, {}, err, "-", ~err,
                            Shown(err), left, FALSE)
    /\ entries' = EmptyEntries
    /\ staff_entries' = EmptyStaffEntries
    /\ role_var' = RoleValues[1]
    /\ frame' = "HomePage"
    /\ UNCHANGED <<db_vars, Staff, schema_vars, hash_calls, date_text>>

\* app.mainloop() is entered: from now on the handlers of the buttons run.
StartMainloop ==
    /\ NextStep("mainloop")
    /\ ret' = NoCall
    /\ UNCHANGED <<db_vars, page_vars, Staff, staff_page_vars, schema_vars,
                   hash_calls, date_text>>

\* hash_password called by itself.  os.urandom is taken to return a value
\* it has not returned before: 16 random bytes repeat with probability
\* 2^-128 for each pair of calls.
HashPassword ==
    /\ Len(hash_calls) < NumSalts
    /\ \E password \in Passwords :
       \E salt \in Salts \ {hash_calls[i].salt : i \in DOMAIN hash_calls} :
          hash_calls' = Append(hash_calls,
                               [password |-> password, salt |-> salt,
                                encoded |-> hash_password(password, salt)])
    /\ ret' = Call("hash_password", 0, {}, FALSE, "-", TRUE, "-", 0, FALSE)
    /\ UNCHANGED <<db_vars, page_vars, Staff, staff_page_vars, schema_vars,
                   date_text, started>>

\* is_valid_date_yyyy_mm_dd called by itself.
ValidateDate ==
    /\ ret' = Call("is_valid_date_yyyy_mm_dd", 0, {}, FALSE, "-",
                   is_valid_date_yyyy_mm_dd(date_text), "-", 0, FALSE)
    /\ UNCHANGED <<db_vars, page_vars, Staff, staff_page_vars, schema_vars,
                   hash_calls, date_text, started>>

\* the buttons of each page that call controller.show_frame
Nav(page) ==
    CASE page = "HomePage" -> {"PatientMenuPage", "LocationMenuPage", "StaffMenuPage"}
      [] page = "PatientMenuPage" -> {"NewPatientPage", "HomePage"}
      [] page = "StaffMenuPage" -> {"NewStaffPage", "HomePage"}
      [] page = "NewPatientPage" -> {"PatientMenuPage"}
      [] page = "NewStaffPage" -> {"StaffMenuPage"}
      [] OTHER -> {}
PatientPages == {"HomePage", "PatientMenuPage", "NewPatientPage"}
StaffPages == {"HomePage", "StaffMenuPage", "NewStaffPage"}

\* show_frame loading the picker again when it raises NewPatientPage
show_frame_reload(pages) ==
    /\ Running
    /\ \E page_name \in Nav(frame) \cap pages :
          /\ frame' = page_name
          /\ IF page_name = "NewPatientPage"
             THEN \E order \in OrderedBy(ClinicLocation) :
                     LET l == load_locations(ClinicLocation, order, FALSE) IN
                     /\ location_map' = l.location_map
                     /\ combo_values' = l.combo_values
                     /\ location_var' = l.location_var
                     /\ ret' = Call("_load_locations", 0, {}, FALSE, "-", TRUE,
                                    "-", 0, FALSE)
             ELSE /\ ret' = NoCall
                  /\ UNCHANGED <<location_map, combo_values, location_var>>
    /\ UNCHANGED <<db_vars, entries>>
    /\ UNCHANGED staff_schema_vars

show_frame(pages) ==
    /\ Running
    /\ \E page_name \in Nav(frame) \cap pages : frame' = page_name
    /\ ret' = NoCall
    /\ UNCHANGED <<db_vars, location_map, combo_values, location_var, entries>>
    /\ UNCHANGED staff_schema_vars

\* The user picks a value of the read-only combobox.
SelectLocation ==
    /\ Running
    /\ frame = "NewPatientPage"
    /\ \E l \in Range(combo_values) : location_var' = l
    /\ ret' = NoCall
    /\ UNCHANGED <<db_vars, location_map, combo_values, entries, frame>>
    /\ UNCHANGED staff_schema_vars

\* The user types into the entries of the form.
FillForm(forms) ==
    /\ Running
    /\ frame = "NewPatientPage"
    /\ \E f \in forms : entries' = f
    /\ ret' = NoCall
    /\ UNCHANGED <<db_vars, location_map, combo_values, location_var, frame>>
    /\ UNCHANGED staff_schema_vars

\* The errors an INSERT can raise: sqlite3 raises sqlite3.Error in any case
\* when the statement names a column the table does not have.
InsertErrs(cols) == IF "password_hash" \in Range(cols) THEN BOOLEAN ELSE {TRUE}

\* The Submit button of NewPatientPage, on a table Patient that holds at
\* most max rows after the call.
SavePatientUpTo(max) ==
    /\ Running
    /\ frame = "NewPatientPage"
    /\ \E salt \in Salts : \E err \in InsertErrs(patient_cols) :
          LET o == save_patient(entries, location_var, location_map, combo_values,
                                Patient, frame, salt, err)
              failed == o.result = "Database Error" IN
          /\ Len(o.Patient) <= max
          /\ Patient' = o.Patient
          /\ entries' = o.entries
          /\ location_var' = o.location_var
          /\ frame' = o.frame
          /\ \E left \in ConnsLeft(failed, TRUE) :
                ret' = Call("save_patient", 0, {}, failed, "-", TRUE, o.result,
                            left, FALSE)
    /\ UNCHANGED <<ClinicLocation, location_map, combo_values>>
    /\ UNCHANGED staff_schema_vars
SavePatient == SavePatientUpTo(MaxPatients)

\* The user picks a value of role_combo.
SelectRole ==
    /\ Running
    /\ frame = "NewStaffPage"
    /\ \E r \in RoleChoices : role_var' = r
    /\ ret' = NoCall
    /\ UNCHANGED <<db_vars, page_vars, Staff, staff_entries, schema_vars,
                   hash_calls, date_text, started>>

\* The user types into the entries of NewStaffPage.
FillStaffForm(forms) ==
    /\ Running
    /\ frame = "NewStaffPage"
    /\ \E f \in forms : staff_entries' = f
    /\ ret' = NoCall
    /\ UNCHANGED <<db_vars, page_vars, Staff, role_var, schema_vars,
                   hash_calls, date_text, started>>

\* The Submit button of NewStaffPage.
SaveStaff ==
    /\ Running
    /\ frame = "NewStaffPage"
    /\ \E salt \in Salts : \E err \in InsertErrs(staff_cols) :
          LET o == save_staff(staff_entries, role_var, Staff, frame, salt, err)
              failed == o.result = "Database Error" IN
          /\ Len(o.Staff) <= MaxStaff
          /\ Staff' = o.Staff
          /\ staff_entries' = o.entries
          /\ role_var' = o.role_var
          /\ frame' = o.frame
          /\ \E left \in ConnsLeft(failed, TRUE) :
                ret' = Call("save_staff", 0, {}, failed, "-", TRUE, o.result,
                            left, FALSE)
    /\ UNCHANGED <<db_vars, location_map, combo_values, location_var, entries,
                   schema_vars, hash_calls, date_text, started>>

\* The first registration of a run: Submit on either form while no row has
\* been inserted yet.
FirstSavePatient ==
    /\ Patient = <<>>
    /\ Staff = <<>>
    /\ SavePatient
FirstSaveStaff ==
    /\ Patient = <<>>
    /\ Staff = <<>>
    /\ SaveStaff

AddClinic(errs) ==
    /\ Len(ClinicLocation) < MaxLocations
    /\ \E a \in AddArgs : \E err \in errs :
          LET o == add_clinic_location(ClinicLocation, a.name, a.address, a.city,
                                       a.state, a.zip, a.phone, err) IN
          /\ ClinicLocation' = o.db
          /\ \E left \in ConnsLeft(err, TRUE) :
                ret' = Call("add_clinic_location", 0, {}, err, "-", o.result,
                            Shown(err), left, FALSE)
    /\ UNCHANGED <<Patient, page_vars, staff_schema_vars>>

UpdateClinic(ids, patches, errs) ==
    /\ \E id \in ids : \E patch \in patches : \E err \in errs :
          LET o == update_clinic_location(ClinicLocation, id, patch, err) IN
          /\ ClinicLocation' = o.db
          \* with no field to update no statement runs before conn.close()
          /\ \E left \in ConnsLeft(err, Provided(patch) # {}) :
                ret' = Call("update_clinic_location", id, Provided(patch), err,
                            Was(ClinicLocation, id), o.result, Shown(err),
                            left, FALSE)
    /\ UNCHANGED <<Patient, page_vars, staff_schema_vars>>

RemoveClinic(ids, errs) ==
    /\ \E id \in ids : \E err \in errs :
          LET o == remove_clinic_location(ClinicLocation, id, err) IN
          /\ ClinicLocation' = o.db
          /\ \E left \in ConnsLeft(err, TRUE) :
                ret' = Call("remove_clinic_location", id, {}, err,
                            Was(ClinicLocation, id), o.result, Shown(err),
                            left, FALSE)
    /\ UNCHANGED <<Patient, page_vars, staff_schema_vars>>

SoftDeleteClinic(ids, errs) ==
    /\ \E id \in ids : \E err \in errs :
          LET o == soft_delete_clinic_location(ClinicLocation, id, err) IN
          /\ ClinicLocation' = o.db
          /\ \E left \in ConnsLeft(err, TRUE) :
                ret' = Call("soft_delete_clinic_location", id, {}, err,
                            Was(ClinicLocation, id), o.result, Shown(err),
                            left, FALSE)
    /\ UNCHANGED <<Patient, page_vars, staff_schema_vars>>

\* LocationMenuPage.update_clinic_dialog up to the dialog it opens: the
\* user has selected the row of clinic id in the list (0: no row), and the
\* handler fetches the record to fill the dialog with.  The SELECT is in no
\* try block: an error it raises leaves the handler, which shows no
\* message and does not reach conn.close().
UpdateClinicDialog(errs) ==
    /\ \E id \in Ids(ClinicLocation) \cup {0} :
       \E err \in (IF id = 0 THEN {FALSE} ELSE errs) :
       \E left \in ConnsLeft(err, TRUE) :
          ret' = Call("update_clinic_dialog", id, {}, err,
                      Was(ClinicLocation, id), ~err,
                      IF id = 0 THEN "Select Clinic" ELSE "-", left, err)
    /\ UNCHANGED <<db_vars, page_vars, staff_schema_vars>>

\* LocationMenuPage.refresh_clinics
ListActive ==
    /\ \E err \in BOOLEAN : \E left \in ConnsLeft(err, TRUE) :
          ret' = Call("get_all_active_clinics", 0, {}, err, "-",
                      get_all_active_clinics(ClinicLocation, err), Shown(err),
                      left, FALSE)
    /\ UNCHANGED <<db_vars, page_vars, staff_schema_vars>>

\* ------------------------------------------------------------------------
\* Specifications
\* ------------------------------------------------------------------------
\* The application: restarts, the registration form, and the store
\* operations that succeed.
Next ==
    \/ Restart
    \/ show_frame(PatientPages)
    \/ SelectLocation
    \/ FillForm(AppForms)
    \/ SavePatient
    \/ AddClinic({FALSE})
    \/ UpdateClinic(AppIds, AppPatches, {FALSE})
    \/ SoftDeleteClinic(AppIds, {FALSE})
Spec == Init /\ [][Next]_vars

\* The clinic location store alone, with patches of every shape.
NextStore ==
    \/ AddClinic(BOOLEAN)
    \/ UpdateClinic(CallIds, StorePatches, BOOLEAN)
    \/ RemoveClinic(CallIds, BOOLEAN)
    \/ SoftDeleteClinic(CallIds, BOOLEAN)
    \/ ListActive
SpecStore == Init /\ [][NextStore]_vars

\* LocationMenuPage: the list, and the add, update and delete buttons, with
\* the storage errors of each.
NextMenu ==
    \/ ListActive
    \/ AddClinic(BOOLEAN)
    \/ UpdateClinicDialog(BOOLEAN)
    \/ UpdateClinic(AppIds, {FullPatch}, BOOLEAN)
    \/ SoftDeleteClinic(AppIds, BOOLEAN)
SpecMenu == Init /\ [][NextMenu]_vars

\* The registration form alone, with every form, on a store that holds no
\* location or an active and an inactive one.
FormStore ==
    LET a == add_clinic_location(<<>>, <<"A">>, <<"a","1">>, <<"c","1">>, <<"s","1">>,
                                 <<"z","1">>, <<>>, FALSE).db
        b == add_clinic_location(a, <<"B">>, <<"a","1">>, <<"c","1">>, <<"s","1">>,
                                 <<"z","1">>, <<>>, FALSE).db
    IN soft_delete_clinic_location(b, 2, FALSE).db
InitForm ==
    /\ ClinicLocation \in {<<>>, FormStore}
    /\ Patient = <<>>
    /\ Staff = <<>>
    /\ InitSchema
    /\ \E order \in OrderedBy(ClinicLocation) :
          LET l == load_locations(ClinicLocation, order, FALSE) IN
          /\ location_map = l.location_map
          /\ combo_values = l.combo_values
          /\ location_var = l.location_var
    /\ InitPages
NextForm ==
    \/ show_frame(PatientPages)
    \/ SelectLocation
    \/ FillForm(Forms)
    \/ SavePatient
SpecForm == InitForm /\ [][NextForm]_vars

\* Registrations one after the other on the store of the form
\* specification, the table Patient holding one row more than there.
NextDup ==
    \/ show_frame(PatientPages)
    \/ FillForm(DupForms)
    \/ SavePatientUpTo(MaxPatients + 1)
SpecDup == InitForm /\ [][NextDup]_vars

\* The migrations alone, run any number of times, by themselves and as
\* the application starts, on tables of every starting schema.
InitMigrate ==
    /\ ClinicLocation = <<>>
    /\ Patient = <<>>
    /\ Staff = <<>>
    /\ patient_cols \in PatientSchemas
    /\ staff_cols \in StaffSchemas
    /\ location_map = <<>>
    /\ combo_values = <<>>
    /\ location_var = NoLocationsFound
    /\ InitPages
NextMigrate ==
    \/ MigratePatient
    \/ MigrateStaff
    \/ Restart
SpecMigrate == InitMigrate /\ [][NextMigrate]_vars

\* is_valid_date_yyyy_mm_dd alone, on every text of DateInputs.
InitDate ==
    /\ ClinicLocation = <<>>
    /\ Patient = <<>>
    /\ Staff = <<>>
    /\ InitSchema
    /\ location_map = <<>>
    /\ combo_values = <<>>
    /\ location_var = NoLocationsFound
    /\ entries = EmptyEntries
    /\ staff_entries = EmptyStaffEntries
    /\ role_var = RoleValues[1]
    /\ frame = "HomePage"
    /\ ret = NoCall
    /\ hash_calls = <<>>
    /\ date_text \in DateInputs
    /\ started = Len(StartOrder)
NextDate ==
    \/ ValidateDate
SpecDate == InitDate /\ [][NextDate]_vars

\* hash_password alone.
NextHash ==
    \/ HashPassword
SpecHash == Init /\ [][NextHash]_vars

\* The staff registration form alone, with every form.
NextStaff ==
    \/ show_frame(StaffPages)
    \/ SelectRole
    \/ FillStaffForm(StaffForms)
    \/ SaveStaff
SpecStaff == Init /\ [][NextStaff]_vars

\* A run of the program from the start of the process, on a healthcare.db
\* whose tables have the column password_hash or lack it, up to the first
\* registration.
InitStart ==
    /\ ClinicLocation = FormStore
    /\ Patient = <<>>
    /\ Staff = <<>>
    /\ patient_cols \in {PatientColumns, Append(PatientColumns, "password_hash")}
    /\ staff_cols \in {StaffColumns, Append(StaffColumns, "password_hash")}
    /\ location_map = <<>>
    /\ combo_values = <<>>
    /\ location_var = NoLocationsFound
    /\ entries = EmptyEntries
    /\ staff_entries = EmptyStaffEntries
    /\ role_var = RoleValues[1]
    /\ frame = "-"
    /\ ret = NoCall
    /\ hash_calls = <<>>
    /\ date_text = <<>>
    /\ started = 0
NextStart ==
    \/ StartMigratePatient
    \/ StartMigrateStaff
    \/ StartFrames
    \/ StartMainloop
    \/ show_frame(PatientPages \cup StaffPages)
    \/ FillForm({BaseForm})
    \/ FirstSavePatient
    \/ FillStaffForm({StaffBase})
    \/ FirstSaveStaff
SpecStart == InitStart /\ [][NextStart]_vars

\* Every operation that writes to healthcare.db: the store operations with
\* patches of no, one and every field, and the first registration on either form, the
\* user having filled both forms.
InitStatus ==
    /\ ClinicLocation \in {<<>>, FormStore}
    /\ Patient = <<>>
    /\ Staff = <<>>
    /\ InitSchema
    /\ \E order \in OrderedBy(ClinicLocation) :
          LET l == load_locations(ClinicLocation, order, FALSE) IN
          /\ location_map = l.location_map
          /\ combo_values = l.combo_values
          /\ location_var = l.location_var
    /\ entries = BaseForm
    /\ staff_entries = StaffBase
    /\ role_var = RoleValues[1]
    /\ frame \in {"NewPatientPage", "NewStaffPage"}
    /\ ret = NoCall
    /\ hash_calls = <<>>
    /\ date_text = <<>>
    /\ started = Len(StartOrder)
NextStatus ==
    \/ AddClinic({FALSE})
    \/ UpdateClinic(AppIds, StatusPatches, {FALSE})
    \/ RemoveClinic(AppIds, {FALSE})
    \/ SoftDeleteClinic(AppIds, {FALSE})
    \/ FirstSavePatient
    \/ FirstSaveStaff
SpecStatus == InitStatus /\ [][NextStatus]_vars

\* A run of the program from the start of the process, on a healthcare.db
\* with no clinic or one: the clinic operations of LocationMenuPage and the
\* first registration of a patient.
OneClinic ==
    add_clinic_location(<<>>, <<"A">>, <<"a","1">>, <<"c","1">>, <<"s","1">>,
                        <<"z","1">>, <<>>, FALSE).db
InitPicker ==
    /\ ClinicLocation \in {<<>>, OneClinic}
    /\ Patient = <<>>
    /\ Staff = <<>>
    /\ InitSchema
    /\ location_map = <<>>
    /\ combo_values = <<>>
    /\ location_var = NoLocationsFound
    /\ entries = EmptyEntries
    /\ staff_entries = EmptyStaffEntries
    /\ role_var = RoleValues[1]
    /\ frame = "-"
    /\ ret = NoCall
    /\ hash_calls = <<>>
    /\ date_text = <<>>
    /\ started = 0
NextPicker ==
    \/ StartMigratePatient
    \/ StartMigrateStaff
    \/ StartFrames
    \/ StartMainloop
    \/ show_frame(PatientPages)
    \/ FillForm({BaseForm})
    \/ FirstSavePatient
    \/ (Running /\ AddClinic({FALSE}))
    \/ (Running /\ UpdateClinic(AppIds, {Only({"name"})}, {FALSE}))
    \/ (Running /\ SoftDeleteClinic(AppIds, {FALSE}))
SpecPicker == InitPicker /\ [][NextPicker]_vars

\* ------------------------------------------------------------------------
\* Properties
\* ------------------------------------------------------------------------
NewRow == Patient'[Len(Patient')]
Inserted == Len(Patient') > Len(Patient)
ActiveIds(db) ==
    LET act == get_all_active_clinics(db, FALSE) IN {act[k][1] : k \in DOMAIN act}

\* C1: the option list _load_locations builds (location_map and the combobox
\* values) holds no ClinicLocation whose status is 'inactive', in the state
\* the load leaves.
C1_PickerHasNoInactive ==
    (ret.op = "_load_locations" /\ ~ret.err) =>
        /\ \A l \in DOMAIN location_map :
              Was(ClinicLocation, location_map[l]) # "inactive"
        /\ \A k \in DOMAIN combo_values : \A i \in DOMAIN ClinicLocation :
              LabelOf(ClinicLocation[i]) = combo_values[k]
                 => ClinicLocation[i].status # "inactive"

\* C2: every Patient row save_patient inserts carries a location_id of a
\* ClinicLocation row whose status is 'active' when the insert happens.
C2_InsertRefersToActive ==
    [][Inserted => Was(ClinicLocation, NewRow.location_id) = "active"]_vars

\* C3: no store operation removes a ClinicLocation row: the set of location
\* ids never shrinks, and a delete changes nothing but the status of the row
\* with the given id, to 'inactive'.
C3_NeverHardDeleted ==
    [][/\ Ids(ClinicLocation) \subseteq Ids(ClinicLocation')
       /\ ret'.op \in {"remove_clinic_location", "soft_delete_clinic_location"} =>
             /\ Len(ClinicLocation') = Len(ClinicLocation)
             /\ \A i \in DOMAIN ClinicLocation :
                   \/ ClinicLocation'[i] = ClinicLocation[i]
                   \/ /\ ClinicLocation[i].location_id = ret'.id
                      /\ ClinicLocation'[i] =
                            [ClinicLocation[i] EXCEPT !.status = "inactive"]]_vars
\* a remove of an active row has returned True and the row is still there
C3_Witness ==
    /\ ret.op = "remove_clinic_location" /\ ret.was = "active" /\ ret.result = TRUE
    /\ Len(ClinicLocation) = MaxLocations
    /\ Was(ClinicLocation, ret.id) = "inactive"

\* C4: soft-deleting a location that is already inactive leaves the store as
\* it was after the first delete and the location out of get_all_active_clinics;
\* it returns True unless sqlite3 raises an error in the call.
C4_SoftDeleteIdempotent ==
    [][(ret'.op = "soft_delete_clinic_location" /\ ret'.was = "inactive") =>
          /\ ClinicLocation' = ClinicLocation
          /\ ret'.result = ~ret'.err
          /\ ret'.id \notin ActiveIds(ClinicLocation')]_vars
\* a second delete of the same row has returned True
C4_Witness ==
    /\ ret.op = "soft_delete_clinic_location" /\ ret.was = "inactive"
    /\ ~ret.err /\ ret.result = TRUE
    /\ ret.id \in Ids(ClinicLocation) /\ ret.id \notin ActiveIds(ClinicLocation)

\* C5: update_clinic_location changes only the fields passed as not None, of
\* the row with the given id: the other fields of that row, its status and
\* its id keep their values, and every other row is unchanged.
C5_UpdateFrame ==
    [][ret'.op = "update_clinic_location" =>
          /\ Len(ClinicLocation') = Len(ClinicLocation)
          /\ \A i \in DOMAIN ClinicLocation :
                IF ClinicLocation[i].location_id = ret'.id
                THEN \A f \in (ClinicFields \ ret'.fields) \cup {"status", "location_id"} :
                        ClinicLocation'[i][f] = ClinicLocation[i][f]
                ELSE ClinicLocation'[i] = ClinicLocation[i]]_vars
\* a patch of city and state has been applied to one of two rows
C5_Witness ==
    /\ ret.op = "update_clinic_location" /\ ret.fields = {"city", "state"}
    /\ ret.result = TRUE /\ ret.id \in Ids(ClinicLocation)
    /\ Len(ClinicLocation) = MaxLocations
    /\ RowOf(ClinicLocation, ret.id).city = FullPatch.city
    /\ RowOf(ClinicLocation, ret.id).address # FullPatch.address

\* C6: update_clinic_location with every field None returns False and leaves
\* every ClinicLocation row unchanged.
C6_UpdateNothing ==
    [][(ret'.op = "update_clinic_location" /\ ret'.fields = {}) =>
          ret'.result = FALSE /\ ClinicLocation' = ClinicLocation]_vars
\* such a call on an existing row, with no sqlite error, has returned False
C6_Witness ==
    /\ ret.op = "update_clinic_location" /\ ret.fields = {} /\ ~ret.err
    /\ ret.result = FALSE /\ ret.id \in Ids(ClinicLocation)

\* C7 as stated: update_clinic_location with an id that matches no row, and a
\* field provided, returns False and changes no row.
C7_UpdateMissingIdFails ==
    [][(ret'.op = "update_clinic_location" /\ ret'.was = "absent"
           /\ ret'.fields # {}) =>
          ret'.result = FALSE /\ ClinicLocation' = ClinicLocation]_vars
\* C7 as amended: such a call changes no row and returns True (the UPDATE
\* matches nothing, which is no error); it returns False only when sqlite3
\* raises an error.
C7_UpdateMissingIdNoChange ==
    [][(ret'.op = "update_clinic_location" /\ ret'.was = "absent"
           /\ ret'.fields # {}) =>
          ret'.result = ~ret'.err /\ ClinicLocation' = ClinicLocation]_vars
\* such a call on a store that holds a row has returned True
C7_Witness ==
    /\ ret.op = "update_clinic_location" /\ ret.was = "absent" /\ ret.fields # {}
    /\ ~ret.err /\ ret.result = TRUE
    /\ ClinicLocation # <<>> /\ ret.id \notin Ids(ClinicLocation)

ValidationTitles ==
    {"Missing Fields", "Missing Clinic Location", "Invalid DOB", "Invalid Sex",
     "Invalid Phone", "Invalid Email", "Weak Password", "Password Mismatch"}

\* C8: when save_patient rejects a submission at a validation step, the
\* Patient table is as before the call: the same rows, the same count.
C8_RejectionWritesNothing ==
    [][(ret'.op = "save_patient" /\ ret'.message \in ValidationTitles) =>
          Patient' = Patient]_vars
\* a password of 7 characters was rejected on a table that holds a row
C8_Witness ==
    /\ ret.op = "save_patient" /\ ret.message = "Weak Password"
    /\ Len(Patient) = 1
    /\ Len(strip(entries["password"])) = 7

\* C9 as stated: a row is created only if the password as entered has at
\* least 8 characters and the confirm-password as entered equals it.
C9_PasswordAsEntered ==
    [][Inserted =>
          /\ Len(entries["password"]) >= 8
          /\ entries["confirm_password"] = entries["password"]]_vars
\* C9 as amended: a row is created only if the password, stripped of
\* surrounding whitespace, has at least 8 characters and equals the
\* confirm-password stripped the same way.
C9_PasswordStripped ==
    [][Inserted =>
          /\ Len(strip(entries["password"])) >= 8
          /\ strip(entries["confirm_password"]) = strip(entries["password"])]_vars
\* a row was created whose hash is that of the stripped password
C9_Witness ==
    /\ ret.op = "save_patient" /\ ret.message = "Success"
    /\ \E i \in DOMAIN Patient : \E salt \in Salts :
          Patient[i].password_hash = hash_password(strip(BaseForm["password"]), salt)

RequiredColumns ==
    {"first_name", "last_name", "dob", "sex", "phone", "email", "address",
     "allergies", "conditions", "medications", "emergency_contact"}

\* C10: every Patient row save_patient creates has its required fields
\* non-empty, sex exactly "M" or "F", and a password_hash that is not the
\* password that was submitted (as entered, or stripped).
C10_RowWellFormed ==
    [][Inserted =>
          /\ \A k \in RequiredColumns : NewRow[k] # <<>>
          /\ NewRow.sex \in {<<"M">>, <<"F">>}
          /\ NewRow.password_hash # entries["password"]
          /\ NewRow.password_hash # strip(entries["password"])]_vars
\* a row was created from the entry " male": its sex is "M"
C10_Witness ==
    /\ ret.op = "save_patient" /\ ret.message = "Success"
    /\ \E i \in DOMAIN Patient : Patient[i].sex = <<"M">>

\* the submission passes every check of save_patient: all fields valid and a
\* selected location that resolves to an id
AllFieldsValid(ent, lvar, lmap) ==
    LET d == [k \in EntryKeys |-> strip(ent[k])] IN
    /\ \A k \in required_keys : d[k] # <<>>
    /\ strip(lvar) \in DOMAIN lmap
    /\ is_valid_date_yyyy_mm_dd(d["dob"])
    /\ normalize_sex(d["sex"]) \in {<<"M">>, <<"F">>}
    /\ is_valid_phone_555_format(d["phone"])
    /\ is_valid_email_basic(d["email"])
    /\ Len(d["password"]) >= 8
    /\ d["password"] = d["confirm_password"]

\* C11: a save_patient call on a submission with all fields valid and a
\* resolved location, whose INSERT raises no storage error, appends exactly
\* one Patient row carrying the submitted email and leaves every earlier row
\* as it was, whether or not a row with that email exists already.
C11_ValidSubmissionInsertsOne ==
    [][(ret'.op = "save_patient" /\ ~ret'.err
          /\ AllFieldsValid(entries, location_var, location_map))
        => /\ Len(Patient') = Len(Patient) + 1
           /\ SubSeq(Patient', 1, Len(Patient)) = Patient
           /\ NewRow.email = strip(entries["email"])
           /\ ret'.message = "Success"]_vars
\* two registrations with the same email have succeeded and left two rows
C11_Witness ==
    /\ ret.op = "save_patient" /\ ret.message = "Success"
    /\ Len(Patient) = 2
    /\ Patient[1].email = Patient[2].email

C13_StaffRowRoleAndFlag ==
    \A i \in DOMAIN Staff :
        /\ Staff[i].role \in {<<"d","o","c","t","o","r">>, <<"b","i","l","l","i","n","g">>,
                               <<"r","e","c","o","r","d","s">>, <<"n","u","r","s","e">>}
        /\ Staff[i].active_flag = 1
\* a registration with a role other than the preselected one has succeeded
C13_Witness ==
    /\ ret.op = "save_staff" /\ ret.message = "Success"
    /\ Len(Staff) = 1
    /\ Staff[1].role = <<"n","u","r","s","e">>

\* how often the column is in the schema
Occurrences(cols, c) == Cardinality({k \in DOMAIN cols : cols[k] = c})
\* what one migration may do to the schema of its table, and must do when
\* it ran (ran: the step was a run of this migration that raised no error)
MigratesOnce(cols, cols2, ran) ==
    /\ "password_hash" \in Range(cols) => cols2 = cols
    /\ cols2 # cols =>
          /\ cols # <<>>
          /\ cols2 = Append(cols, "password_hash")
    /\ ran => Occurrences(cols2, "password_hash") = 1

\* C14: on the schema of an existing table, a run of a migration that
\* raises no storage error appends password_hash when the schema lacks it
\* and changes nothing when the schema has it; no step adds the column to a
\* schema that has it, so the schema never names it twice and every run
\* after a first successful one leaves the schema as that run left it.
C14_MigratorIdempotent ==
    [][/\ MigratesOnce(patient_cols, patient_cols',
                       ret'.op = "ensure_patient_password_column" /\ ~ret'.err)
       /\ MigratesOnce(staff_cols, staff_cols',
                       ret'.op = "ensure_staff_password_column" /\ ~ret'.err)
       /\ (ret'.op \in {"ensure_patient_password_column",
                        "ensure_staff_password_column"} /\ ret'.err)
             => UNCHANGED schema_vars]_vars
\* a migration has added the column to each of the two tables
C14_Witness ==
    /\ ret.op = "ensure_staff_password_column" /\ ~ret.err
    /\ ret.was = "absent"
    /\ patient_cols = Append(PatientColumns, "password_hash")
    /\ staff_cols = Append(StaffColumns, "password_hash")

\* C15: any two calls of hash_password with the same password have returned
\* different strings, and every string returned splits on "$" into four
\* fields: the tag pbkdf2_sha256, the iteration count 200000, the salt of
\* the call, and the key pbkdf2_hmac derives from the password of the call
\* with that salt and that iteration count.
C15_FreshSaltAndFormat ==
    /\ \A i, j \in DOMAIN hash_calls :
          (i # j /\ hash_calls[i].password = hash_calls[j].password)
             => hash_calls[i].encoded # hash_calls[j].encoded
    /\ \A i \in DOMAIN hash_calls :
          LET f == split(hash_calls[i].encoded, "$") IN
          /\ Len(f) = 4
          /\ f[1] = <<"p","b","k","d","f","2","_","s","h","a","2","5","6">>
          /\ f[2] = <<"2","0","0","0","0","0">>
          /\ f[3] = hash_calls[i].salt
          /\ f[4] = pbkdf2_hmac(hash_calls[i].password, f[3], NumVal(f[2]))
\* hash_password has been called twice with a password that holds a "$"
C15_Witness ==
    /\ Len(hash_calls) = 2
    /\ hash_calls[1].password = <<"p","a","$","$","w","o","r","d">>
    /\ hash_calls[2].password = hash_calls[1].password
    /\ hash_calls[1].encoded # hash_calls[2].encoded

\* the text has the exact format YYYY-MM-DD, four digits, two digits and
\* two digits separated by hyphens, and names a date of the calendar
ExactDate(s) ==
    /\ Len(s) = 10
    /\ \A i \in {1, 2, 3, 4, 6, 7, 9, 10} : IsDigit(s[i])
    /\ s[5] = "-" /\ s[8] = "-"
    /\ NumVal(SubSeq(s, 6, 7)) \in 1..12
    /\ NumVal(SubSeq(s, 9, 10)) \in
          1..DaysInMonth(NumVal(SubSeq(s, 1, 4)), NumVal(SubSeq(s, 6, 7)))

\* C16: is_valid_date_yyyy_mm_dd returns True only for a text in the exact
\* format YYYY-MM-DD that names a date of the calendar, and False for every
\* other text.
C16_ExactFormatOnly ==
    (ret.op = "is_valid_date_yyyy_mm_dd" /\ ret.result = TRUE)
       => ExactDate(date_text)

\* the checks of a submission in the order of the claim, each with the
\* title of its message, and whether the submission fails the check
CheckOrder ==
    <<"Missing Fields", "Missing Clinic Location", "Invalid DOB", "Invalid Sex",
      "Invalid Phone", "Invalid Email", "Weak Password", "Password Mismatch">>
Fails(k, ent, lvar, lmap) ==
    LET d == [f \in EntryKeys |-> strip(ent[f])] IN
    CASE k = 1 -> \E f \in required_keys : d[f] = <<>>
      [] k = 2 -> strip(lvar) \notin DOMAIN lmap
      [] k = 3 -> ~is_valid_date_yyyy_mm_dd(d["dob"])
      [] k = 4 -> normalize_sex(d["sex"]) \notin {<<"M">>, <<"F">>}
      [] k = 5 -> ~is_valid_phone_555_format(d["phone"])
      [] k = 6 -> ~is_valid_email_basic(d["email"])
      [] k = 7 -> Len(d["password"]) < 8
      [] k = 8 -> d["password"] # d["confirm_password"]
Failing(ent, lvar, lmap) == {k \in DOMAIN CheckOrder : Fails(k, ent, lvar, lmap)}

\* C17: a save_patient call on a submission that fails one or more of the
\* checks presence, clinic selection, dob, sex, phone, email, password
\* length, password match shows the one message of the first of them in
\* this order it fails; a submission that fails none is passed to the INSERT.
C17_FirstFailureReported ==
    [][ret'.op = "save_patient" =>
         LET failing == Failing(entries, location_var, location_map) IN
         IF failing = {} THEN ret'.message \in {"Success", "Database Error"}
         ELSE ret'.message =
                 CheckOrder[CHOOSE k \in failing : \A m \in failing : k <= m]]_vars
\* a submission that fails the dob check and the password length check has
\* been refused for its dob
C17_Witness ==
    /\ ret.op = "save_patient" /\ ret.message = "Invalid DOB"
    /\ Failing(entries, location_var, location_map) = {3, 7, 8}

\* C19: a save_patient call whose INSERT raises a storage error shows
\* "Database Error", writes no Patient row, keeps the entries and the
\* selection and stays on NewPatientPage; a call clears the entries or
\* raises HomePage only when it has inserted the row, and then does both.
C19_StorageErrorKeepsForm ==
    [][ret'.op = "save_patient" =>
         /\ ret'.err =>
               /\ ret'.message = "Database Error"
               /\ Patient' = Patient
               /\ entries' = entries
               /\ location_var' = location_var
               /\ frame' = "NewPatientPage"
         /\ (entries' # entries \/ frame' # frame) =>
               /\ Inserted
               /\ ret'.message = "Success"
         /\ Inserted => (entries' = EmptyEntries /\ frame' = "HomePage")]_vars
\* the INSERT of a valid submission has failed: the form is as it was
C19_Witness ==
    /\ ret.op = "save_patient" /\ ret.err /\ ret.message = "Database Error"
    /\ entries = BaseForm
    /\ frame = "NewPatientPage"
    /\ Patient = <<>>

\* C18: a call of an operation of the clinic store, of a migration or of a
\* registrar has closed the connection it opened when it returns: it
\* leaves no connection open, whether it succeeded or failed.
C18_NoConnectionLeftOpen == ret.open = 0

\* C20: a storage error raised in an operation started from the user
\* interface is caught in the operation and shown as a message: no call
\* ends with the error leaving the operation, and every call in which
\* sqlite3 raised an error has shown a message box.
C20_StorageErrorsSurfaced ==
    /\ ~ret.raised
    /\ ret.err => ret.message # "-"


\* C21: in every run of the program both migrations have completed, with
\* or without an error, before Submit of NewPatientPage or NewStaffPage
\* runs, so before the first insert into Patient or Staff; and a migration
\* that fails does not stop the start: the next step of __init__ follows
\* it, no error leaving the migration.
C21_MigrationsBeforeRegistrars ==
    [][/\ (\/ ret'.op \in {"save_patient", "save_staff"}
           \/ Len(Patient') > Len(Patient)
           \/ Len(Staff') > Len(Staff))
          => /\ Done("ensure_patient_password_column")
             /\ Done("ensure_staff_password_column")
       /\ (/\ started' # started
           /\ ret'.op \in {"ensure_patient_password_column",
                            "ensure_staff_password_column"}
           /\ ret'.err)
          => /\ ~ret'.raised
             /\ started' = started + 1
             /\ started' < Len(StartOrder)
             /\ StartOrder[started' + 1] \in {"ensure_staff_password_column",
                                              "frames"}]_vars
\* the migration of Patient failed, the program started all the same, and
\* a staff member was registered after both migrations had completed
C21_Witness ==
    /\ "password_hash" \notin Range(patient_cols)
    /\ Done("ensure_patient_password_column")
    /\ Done("ensure_staff_password_column")
    /\ Running
    /\ ret.op = "save_staff"
    /\ ret.message = "Success"
    /\ Len(Staff) = 1

\* C22: a clinic location whose status is 'inactive' keeps that status in
\* every step: no operation (add, update with any fields, remove,
\* soft-delete, patient or staff registration) removes the row or sets its
\* status to 'active', so get_all_active_clinics does not return it again.
C22_InactiveStaysInactive ==
    [][\A id \in Ids(ClinicLocation) :
          RowOf(ClinicLocation, id).status = "inactive"
          => /\ id \in Ids(ClinicLocation')
             /\ RowOf(ClinicLocation', id).status = "inactive"
             /\ id \notin ActiveIds(ClinicLocation')]_vars
\* every field of an inactive location has just been updated, and the
\* location is inactive still
C22_Witness ==
    /\ ret.op = "update_clinic_location"
    /\ ret.was = "inactive"
    /\ ret.fields = ClinicFields
    /\ ret.result = TRUE
    /\ RowOf(ClinicLocation, ret.id).name = FullPatch.name
    /\ RowOf(ClinicLocation, ret.id).status = "inactive"
    /\ ret.id \notin ActiveIds(ClinicLocation)

\* C23: in the state _load_locations leaves when it raised no error, every
\* location of ClinicLocation has its own entry in the picker: its label is
\* a key of location_map and that key resolves to its location_id, also
\* when two locations have the same name.
C23_EveryLocationSelectable ==
    (ret.op = "_load_locations" /\ ~ret.err)
    => \A id \in Ids(ClinicLocation) :
          LET l == LabelOf(RowOf(ClinicLocation, id)) IN
          /\ l \in DOMAIN location_map
          /\ location_map[l] = id

\* the location ids the picker can resolve a label to
Selectable(map) == {map[l] : l \in DOMAIN map}

\* C24: location_map changes only in the step of the start of the program
\* that builds NewPatientPage; adding, updating or soft-deleting a clinic
\* and a Submit of NewPatientPage, accepted or rejected, leave it as it is,
\* and an accepted registration stores a location id of the map loaded
\* then.
C24_PickerLoadedAtStartOnly ==
    [][/\ location_map' # location_map
          => /\ started' = started + 1
             /\ StartOrder[started'] = "frames"
       /\ ret'.op \in {"add_clinic_location", "update_clinic_location",
                        "soft_delete_clinic_location", "save_patient"}
          => /\ location_map' = location_map
             /\ Selectable(location_map') = Selectable(location_map)
       /\ Inserted => NewRow.location_id \in Selectable(location_map)]_vars
\* a clinic was added after the program had started with one clinic: the
\* picker does not offer it, and the registration just accepted stored the
\* clinic loaded at the start
C24_Witness ==
    /\ ret.op = "save_patient"
    /\ ret.message = "Success"
    /\ Len(Patient) = 1
    /\ Selectable(location_map) = {1}
    /\ Ids(ClinicLocation) = {1, 2}
    /\ Patient[1].location_id = 1
====
